---- MODULE Spec2Model ----
(***************************************************************************)
(* Model of the two scripts of oliban/anagram-game:                        *)
(*   code_map_generator.py    (Swift API surface extractor)                *)
(*   update_network_config.py (NetworkConfiguration.swift patcher)         *)
(*                                                                         *)
(* A source line is a record [ind, toks]: ind is the number of leading     *)
(* indentation levels, toks the whitespace-separated tokens of the         *)
(* stripped line.  The punctuation tokens "()" and ":" attach to the word  *)
(* before them (no whitespace in between); every other token is preceded   *)
(* by whitespace.  A text (a string holding newlines) is the sequence of   *)
(* its lines.                                                              *)
(***************************************************************************)
EXTENDS Integers, Sequences, FiniteSets, TLC

VARIABLES
    \* ---- SwiftCodeMapGenerator / generate_code_map ----
    src,               \* lines of the file being scanned
    pc,                \* position inside generate_code_map
    imports, protocols, types, global_functions, extensions,
    code_map,          \* text returned by generate_code_map
    \* ---- main of code_map_generator.py ----
    paths,             \* args.paths
    use_output,        \* args.output given
    fsKind,            \* what each top-level path names on disk
    dirKind,           \* the files below the directory argument
    mpc, pidx,         \* position of main, index into args.paths
    swift_files, fidx, \* sorted files of the directory being walked
    output_lines,      \* list of strings; each string is a sequence of lines
    out_text,          \* output_content that was written or printed
    summary,           \* the <n> of "Generated <n> lines ...", -1 if none
    \* ---- update_network_config ----
    mode, tunnel_url,  \* arguments
    en0, en1,          \* what `ipconfig getifaddr <if>` does on this host
    disk,              \* NetworkConfiguration.swift on disk
    content,           \* the text held in memory
    ppc,               \* position inside update_network_config
    result,            \* last subprocess result
    queried,           \* interfaces queried so far, in order
    printed,           \* lines printed to stdout, in order
    writes,            \* number of times the file was written back
    \* ---- one block scanner (extract_protocols / _types / _extensions) ----
    bkind,             \* which of the three scanners runs
    bphase,            \* "outer" loop test, "inner" loop test, or "done"
    bi, bj,            \* i and j, as indexes from 1
    bdepth,            \* brace_count of the inner loop
    bcur,              \* protocol_lines / type_lines / extension_lines
    bblocks,           \* the list being returned
    branges            \* first and last line consumed by each recorded block

svars == <<src, pc, imports, protocols, types, global_functions, extensions, code_map>>
mvars == <<paths, use_output, fsKind, dirKind, mpc, pidx, swift_files, fidx,
           output_lines, out_text, summary>>
pvars == <<mode, tunnel_url, en0, en1, disk, content, ppc, result, queried,
           printed, writes>>
bvars == <<bkind, bphase, bi, bj, bdepth, bcur, bblocks, branges>>
vars == <<svars, mvars, pvars, bvars>>

(***************************************************************************)
(* Bounds                                                                  *)
(***************************************************************************)
MaxLines == 5      \* longest scanned source, in lines
MaxPaths == 2      \* most path arguments given to main

(***************************************************************************)
(* Tokens and lines                                                        *)
(***************************************************************************)
Line(n, ts) == [ind |-> n, toks |-> ts]
Blank == Line(0, <<>>)

Attrs == {"@objc", "@MainActor"}
Attached == {"()", ":"}
Keywords == {"public", "private", "internal", "fileprivate", "open", "final",
             "static", "class", "struct", "enum", "protocol", "extension",
             "override", "weak", "unowned", "mutating", "func", "init",
             "deinit", "var", "let", "import"}
Names == {"A", "B", "P", "m", "n", "a", "b", "c", "g", "q", "s", "t", "x",
          "Int", "Foundation", "AnyObject"}
\* \w+ directly after whitespace
IsWord(t) == t \in Keywords \cup Names

Tok(toks, k) == IF k >= 1 /\ k <= Len(toks) THEN toks[k] ELSE "<eol>"
Opt(toks, k, S) == IF Tok(toks, k) \in S THEN k + 1 ELSE k
Count(toks, t) == Cardinality({k \in 1..Len(toks) : toks[k] = t})
\* stripped.count('{') - stripped.count('}')
BraceDelta(toks) == Count(toks, "{") - Count(toks, "}")
\* first index >= k holding a token of S, Len+1 when there is none
FirstIdx(toks, k, S) ==
    IF \E n \in k..Len(toks) : toks[n] \in S
    THEN CHOOSE n \in k..Len(toks) :
             toks[n] \in S /\ \A p \in k..(n - 1) : toks[p] \notin S
    ELSE Len(toks) + 1
\* (?:@\w+(?:\([^)]*\))?\s+)* : index of the first token after the attributes
SkipAttrs(toks, k) ==
    IF \E n \in k..Len(toks) : toks[n] \notin Attrs
    THEN CHOOSE n \in k..Len(toks) :
             toks[n] \notin Attrs /\ \A p \in k..(n - 1) : toks[p] \in Attrs
    ELSE Len(toks) + 1
Part(toks, a, b) == IF a > b THEN <<>> ELSE SubSeq(toks, a, b)
NoMatch == [ok |-> FALSE]
\* stripped.startswith('//')
IsComment(toks) == toks # <<>> /\ toks[1] \in {"//", "///"}
\* the access test dropped
VisibleAlways(access) == TRUE

\* not prop_access.strip().startswith('private') and not ...('fileprivate')
Visible(access) == access = <<>> \/ access[1] \notin {"private", "fileprivate"}

(***************************************************************************)
(* extract_imports                                                         *)
(***************************************************************************)
\* the pattern without its ^ anchor, searched anywhere in the line
ImportMatchUnanchored(l) ==
    \E k \in 1..Len(l.toks) : l.toks[k] = "import" /\ k < Len(l.toks)

\* ^import\s+.*$ with re.MULTILINE: the keyword at column 0, then whitespace
ImportMatch(l) ==
    l.ind = 0 /\ Len(l.toks) >= 2 /\ l.toks[1] = "import" /\ l.toks[2] \notin Attached

RECURSIVE ImportsFrom(_, _)
ImportsFrom(lines, k) ==
    IF k > Len(lines) THEN <<>>
    ELSE (IF ImportMatch(lines[k]) THEN <<lines[k]>> ELSE <<>>) \o ImportsFrom(lines, k + 1)

extract_imports(lines) == ImportsFrom(lines, 1)

(***************************************************************************)
(* extract_protocols                                                       *)
(***************************************************************************)
\* tail of a block header after the name: (\s*:\s*[^{]+)?\s*\{
\* gives the inheritance tokens, or "none" when the tail does not match
HeaderTail(toks, k) ==
    IF Tok(toks, k) = "{" THEN <<>>
    ELSE IF Tok(toks, k) = ":" /\ Tok(toks, k + 1) \notin {"{", "<eol>"}
                               /\ FirstIdx(toks, k + 1, {"{"}) <= Len(toks)
         THEN Part(toks, k, FirstIdx(toks, k + 1, {"{"}) - 1)
         ELSE <<"<none>">>

protocol_match(toks) ==
    LET k1 == SkipAttrs(toks, 1)
        k2 == Opt(toks, k1, {"public", "private", "internal", "fileprivate"})
        tail == HeaderTail(toks, k2 + 2)
    IN  IF /\ Tok(toks, k2) = "protocol"
           /\ IsWord(Tok(toks, k2 + 1))
           /\ tail # <<"<none>">>
        THEN [ok |-> TRUE, annotations |-> Part(toks, 1, k1 - 1),
              access |-> Part(toks, k1, k2 - 1), name |-> toks[k2 + 1],
              inheritance |-> tail]
        ELSE NoMatch

\* \s*((?:@\w+...\s+)*)(static\s+|class\s+)?func\s+([^{]+)
ProtoFuncMatch(toks) ==
    LET k1 == SkipAttrs(toks, 1)
        k2 == Opt(toks, k1, {"static", "class"})
        e  == FirstIdx(toks, k2 + 1, {"{"})
    IN  IF Tok(toks, k2) = "func" /\ Tok(toks, k2 + 1) \notin Attached /\ e > k2 + 1
        THEN [ok |-> TRUE, annotations |-> Part(toks, 1, k1 - 1),
              modifier |-> Part(toks, k1, k2 - 1),
              signature |-> Part(toks, k2 + 1, e - 1)]
        ELSE NoMatch

\* \s*(var|let)\s+(\w+)\s*:\s*([^{]+)
ProtoVarMatch(toks) ==
    LET e == FirstIdx(toks, 4, {"{"})
    IN  IF /\ Tok(toks, 1) \in {"var", "let"} /\ IsWord(Tok(toks, 2))
           /\ Tok(toks, 3) = ":" /\ e > 4 /\ Len(toks) >= 4
        THEN [ok |-> TRUE, kind |-> toks[1], name |-> toks[2],
              decl |-> Part(toks, 4, e - 1)]
        ELSE NoMatch

\* the method_annotations line of a protocol member, dropped
ProtoFuncLinesNoAnnotation(toks) ==
    LET fm == ProtoFuncMatch(toks)
    IN  IF fm.ok THEN <<Line(1, fm.modifier \o <<"func">> \o fm.signature)>> ELSE <<>>

\* lines 53-61: the lines appended for a method requirement
ProtoFuncLines(toks) ==
    LET fm == ProtoFuncMatch(toks)
    IN  IF fm.ok
        THEN (IF fm.annotations # <<>> THEN <<Line(1, fm.annotations)>> ELSE <<>>)
             \o <<Line(1, fm.modifier \o <<"func">> \o fm.signature)>>
        ELSE <<>>

\* lines 64-69: the line appended for a property requirement
ProtoVarLines(toks) ==
    LET vm == ProtoVarMatch(toks)
    IN  IF vm.ok THEN <<Line(1, <<vm.kind, vm.name, ":">> \o vm.decl)>> ELSE <<>>

\* lines 45-71: the inner while loop; j is the index of the next line
RECURSIVE ProtoBody(_, _, _, _)
ProtoBody(lines, j, brace_count, acc) ==
    IF j > Len(lines) \/ brace_count <= 0 THEN [j |-> j, lines |-> acc]
    ELSE LET stripped == lines[j].toks
             bc == brace_count + BraceDelta(stripped)
             add == IF bc = 1 /\ stripped # <<>> /\ ~IsComment(stripped)
                    THEN ProtoFuncLines(stripped) \o ProtoVarLines(stripped)
                    ELSE <<>>
         IN  ProtoBody(lines, j + 1, bc, acc \o add)

\* lines 36-39
ProtoHeader(m) ==
    (IF m.annotations # <<>> THEN <<Line(0, m.annotations)>> ELSE <<>>)
    \o <<Line(0, m.access \o <<"protocol", m.name>> \o m.inheritance \o <<"{">>)>>

\* lines 23-77: the outer while loop
RECURSIVE ProtoScan(_, _)
ProtoScan(lines, i) ==
    IF i > Len(lines) THEN <<>>
    ELSE LET m == protocol_match(lines[i].toks)
         IN  IF m.ok
             THEN LET b == ProtoBody(lines, i + 1, 1, ProtoHeader(m))
                  IN  <<b.lines \o <<Line(0, <<"}">>)>> >> \o ProtoScan(lines, b.j)
             ELSE ProtoScan(lines, i + 1)

extract_protocols(lines) == ProtoScan(lines, 1)

(***************************************************************************)
(* extract_types                                                           *)
(***************************************************************************)
AccessKw == {"public", "private", "internal", "fileprivate", "open"}
IsGenerics(t) == t \in {"<T>"}

\* line 91
type_match(toks) ==
    LET k1 == SkipAttrs(toks, 1)
        k2 == Opt(toks, k1, AccessKw)
        k3 == Opt(toks, k2, {"final"})
        k5 == IF IsGenerics(Tok(toks, k3 + 2)) THEN k3 + 3 ELSE k3 + 2
        tail == HeaderTail(toks, k5)
    IN  IF /\ Tok(toks, k3) \in {"class", "struct", "enum"}
           /\ IsWord(Tok(toks, k3 + 1))
           /\ tail # <<"<none>">>
        THEN [ok |-> TRUE, annotations |-> Part(toks, 1, k1 - 1),
              access |-> Part(toks, k1, k2 - 1), final |-> Part(toks, k2, k3 - 1),
              keyword |-> toks[k3], name |-> toks[k3 + 1],
              generics |-> Part(toks, k3 + 2, k5 - 1), inheritance |-> tail]
        ELSE NoMatch

\* line 127: ... (var|let)\s+(\w+)\s*:\s*([^={\n]+)
prop_match(toks) ==
    LET k1 == SkipAttrs(toks, 1)
        k2 == Opt(toks, k1, AccessKw)
        k3 == Opt(toks, k2, {"static", "class"})
        k4 == Opt(toks, k3, {"weak", "unowned"})
        e  == FirstIdx(toks, k4 + 3, {"=", "{"})
    IN  IF /\ Tok(toks, k4) \in {"var", "let"} /\ IsWord(Tok(toks, k4 + 1))
           /\ Tok(toks, k4 + 2) = ":" /\ Len(toks) >= k4 + 3 /\ e > k4 + 3
        THEN [ok |-> TRUE, annotations |-> Part(toks, 1, k1 - 1),
              access |-> Part(toks, k1, k2 - 1), static |-> Part(toks, k2, k3 - 1),
              weak |-> Part(toks, k3, k4 - 1), kind |-> toks[k4],
              name |-> toks[k4 + 1], type |-> Part(toks, k4 + 3, e - 1)]
        ELSE NoMatch

\* lines 148 and 279: ... (var)\s+(\w+)\s*:\s*([^{]+)\s*\{
computed_match(toks) ==
    LET k1 == SkipAttrs(toks, 1)
        k2 == Opt(toks, k1, AccessKw)
        k3 == Opt(toks, k2, {"static", "class"})
        e  == FirstIdx(toks, k3 + 3, {"{"})
    IN  IF /\ Tok(toks, k3) = "var" /\ IsWord(Tok(toks, k3 + 1))
           /\ Tok(toks, k3 + 2) = ":" /\ e > k3 + 3 /\ e <= Len(toks)
        THEN [ok |-> TRUE, annotations |-> Part(toks, 1, k1 - 1),
              access |-> Part(toks, k1, k2 - 1), static |-> Part(toks, k2, k3 - 1),
              name |-> toks[k3 + 1], type |-> Part(toks, k3 + 3, e - 1)]
        ELSE NoMatch

\* end of a run of tokens of S starting at k (a starred group)
SkipAll(toks, k, S) ==
    IF \E n \in k..Len(toks) : toks[n] \notin S
    THEN CHOOSE n \in k..Len(toks) :
             toks[n] \notin S /\ \A p \in k..(n - 1) : toks[p] \in S
    ELSE Len(toks) + 1

\* line 166: ... (static\s+|class\s+|override\s+)*(func|init|deinit)\s+([^{]+)
\* a starred group captures its last repetition only
TypeFuncMatch(toks) ==
    LET k1 == SkipAttrs(toks, 1)
        k2 == Opt(toks, k1, AccessKw)
        k3 == SkipAll(toks, k2, {"static", "class", "override"})
        e  == FirstIdx(toks, k3 + 1, {"{"})
    IN  IF /\ Tok(toks, k3) \in {"func", "init", "deinit"}
           /\ Tok(toks, k3 + 1) \notin Attached /\ e > k3 + 1
        THEN [ok |-> TRUE, annotations |-> Part(toks, 1, k1 - 1),
              access |-> Part(toks, k1, k2 - 1),
              modifiers |-> Part(toks, IF k3 > k2 THEN k3 - 1 ELSE k3, k3 - 1),
              keyword |-> toks[k3], signature |-> Part(toks, k3 + 1, e - 1)]
        ELSE NoMatch

AnnotationLines(a) == IF a # <<>> THEN <<Line(1, a)>> ELSE <<>>

\* lines 128-145
PropLines(toks) ==
    LET m == prop_match(toks)
    IN  IF m.ok /\ Visible(m.access)
        THEN AnnotationLines(m.annotations)
             \o <<Line(1, m.access \o m.static \o m.weak \o <<m.kind, m.name, ":">> \o m.type)>>
        ELSE <<>>

\* lines 149-163
ComputedLines(toks) ==
    LET m == computed_match(toks)
    IN  IF m.ok /\ Visible(m.access)
        THEN AnnotationLines(m.annotations)
             \o <<Line(1, m.access \o m.static \o <<"var", m.name, ":">> \o m.type
                          \o <<"{", "get", "}">>)>>
        ELSE <<>>

\* lines 167-182
TypeFuncLines(toks) ==
    LET m == TypeFuncMatch(toks)
    IN  IF m.ok /\ Visible(m.access)
        THEN AnnotationLines(m.annotations)
             \o <<Line(1, m.access \o m.modifiers \o <<m.keyword>> \o m.signature)>>
        ELSE <<>>

\* lines 119-184: the inner while loop
RECURSIVE TypeBody(_, _, _, _)
TypeBody(lines, j, brace_count, acc) ==
    IF j > Len(lines) \/ brace_count <= 0 THEN [j |-> j, lines |-> acc]
    ELSE LET stripped == lines[j].toks
             bc == brace_count + BraceDelta(stripped)
             add == IF bc = 1 /\ stripped # <<>> /\ ~IsComment(stripped)
                    THEN PropLines(stripped) \o ComputedLines(stripped)
                         \o TypeFuncLines(stripped)
                    ELSE <<>>
         IN  TypeBody(lines, j + 1, bc, acc \o add)

\* lines 103-113
TypeHeader(m) ==
    (IF m.annotations # <<>> THEN <<Line(0, m.annotations)>> ELSE <<>>)
    \o <<Line(0, m.access \o m.final \o <<m.keyword, m.name>> \o m.generics
                 \o m.inheritance \o <<"{">>)>>

\* lines 87-190: the outer while loop
RECURSIVE TypeScan(_, _)
TypeScan(lines, i) ==
    IF i > Len(lines) THEN <<>>
    ELSE LET m == type_match(lines[i].toks)
         IN  IF m.ok
             THEN LET b == TypeBody(lines, i + 1, 1, TypeHeader(m))
                  IN  <<b.lines \o <<Line(0, <<"}">>)>> >> \o TypeScan(lines, b.j)
             ELSE TypeScan(lines, i + 1)

extract_types(lines) == TypeScan(lines, 1)

(***************************************************************************)
(* extract_global_functions                                                *)
(***************************************************************************)
\* line 205: ... (final\s+)?(class|struct|enum|protocol)\s+\w+
TypeDeclSeen(toks) ==
    LET k1 == SkipAttrs(toks, 1)
        k2 == Opt(toks, k1, AccessKw)
        k3 == Opt(toks, k2, {"final"})
    IN  /\ Tok(toks, k3) \in {"class", "struct", "enum", "protocol"}
        /\ IsWord(Tok(toks, k3 + 1))

\* line 216: ... (static\s+)?func\s+([^{]+)
GlobalFuncMatch(toks) ==
    LET k1 == SkipAttrs(toks, 1)
        k2 == Opt(toks, k1, AccessKw)
        k3 == Opt(toks, k2, {"static"})
        e  == FirstIdx(toks, k3 + 1, {"{"})
    IN  IF Tok(toks, k3) = "func" /\ Tok(toks, k3 + 1) \notin Attached /\ e > k3 + 1
        THEN [ok |-> TRUE, annotations |-> Part(toks, 1, k1 - 1),
              access |-> Part(toks, k1, k2 - 1), static |-> Part(toks, k2, k3 - 1),
              signature |-> Part(toks, k3 + 1, e - 1)]
        ELSE NoMatch

\* lines 216-227
GlobalFuncLines(toks) ==
    LET m == GlobalFuncMatch(toks)
    IN  IF m.ok /\ ~IsComment(toks) /\ Visible(m.access)
        THEN (IF m.annotations # <<>> THEN <<Line(0, m.annotations)>> ELSE <<>>)
             \o <<Line(0, m.access \o m.static \o <<"func">> \o m.signature)>>
        ELSE <<>>

\* lines 201-227: the for loop; k is the index of the next line
RECURSIVE GlobalScan(_, _, _, _)
GlobalScan(lines, k, inside_type, brace_count) ==
    IF k > Len(lines) THEN <<>>
    ELSE LET stripped == lines[k].toks
             seen == TypeDeclSeen(stripped)
             in1  == inside_type \/ seen
             bc1  == IF seen THEN 0 ELSE brace_count
             bc2  == IF in1 THEN bc1 + BraceDelta(stripped) ELSE bc1
             in2  == in1 /\ ~(bc2 <= 0)
         IN  (IF ~in2 THEN GlobalFuncLines(stripped) ELSE <<>>)
             \o GlobalScan(lines, k + 1, in2, bc2)

extract_global_functions(lines) == GlobalScan(lines, 1, FALSE, 0)

(***************************************************************************)
(* extract_extensions                                                      *)
(***************************************************************************)
\* line 240
extension_match(toks) ==
    LET k1 == SkipAttrs(toks, 1)
        k2 == Opt(toks, k1, {"public", "private", "internal", "fileprivate"})
        tail == HeaderTail(toks, k2 + 2)
    IN  IF /\ Tok(toks, k2) = "extension"
           /\ IsWord(Tok(toks, k2 + 1))
           /\ tail # <<"<none>">>
        THEN [ok |-> TRUE, annotations |-> Part(toks, 1, k1 - 1),
              access |-> Part(toks, k1, k2 - 1), name |-> toks[k2 + 1],
              conformance |-> tail]
        ELSE NoMatch

\* line 266: ... (static\s+|class\s+)?func\s+([^{]+)
ExtFuncMatch(toks) ==
    LET k1 == SkipAttrs(toks, 1)
        k2 == Opt(toks, k1, AccessKw)
        k3 == Opt(toks, k2, {"static", "class"})
        e  == FirstIdx(toks, k3 + 1, {"{"})
    IN  IF Tok(toks, k3) = "func" /\ Tok(toks, k3 + 1) \notin Attached /\ e > k3 + 1
        THEN [ok |-> TRUE, annotations |-> Part(toks, 1, k1 - 1),
              access |-> Part(toks, k1, k2 - 1), modifiers |-> Part(toks, k2, k3 - 1),
              signature |-> Part(toks, k3 + 1, e - 1)]
        ELSE NoMatch

\* lines 267-276
ExtFuncLines(toks) ==
    LET m == ExtFuncMatch(toks)
    IN  IF m.ok /\ Visible(m.access)
        THEN AnnotationLines(m.annotations)
             \o <<Line(1, m.access \o m.modifiers \o <<"func">> \o m.signature)>>
        ELSE <<>>

\* lines 279-290, with the stored-property pattern of extract_types (line 127)
ExtVarLinesStored(toks) ==
    LET m == prop_match(toks)
    IN  IF m.ok /\ Visible(m.access)
        THEN AnnotationLines(m.annotations)
             \o <<Line(1, m.access \o m.static \o <<m.kind, m.name, ":">> \o m.type)>>
        ELSE <<>>

\* lines 279-290
ExtVarLines(toks) ==
    LET m == computed_match(toks)
    IN  IF m.ok /\ Visible(m.access)
        THEN AnnotationLines(m.annotations)
             \o <<Line(1, m.access \o m.static \o <<"var", m.name, ":">> \o m.type
                          \o <<"{", "get", "}">>)>>
        ELSE <<>>

\* lines 258-292: the inner while loop
RECURSIVE ExtBody(_, _, _, _)
ExtBody(lines, j, brace_count, acc) ==
    IF j > Len(lines) \/ brace_count <= 0 THEN [j |-> j, lines |-> acc]
    ELSE LET stripped == lines[j].toks
             bc == brace_count + BraceDelta(stripped)
             add == IF bc = 1 /\ stripped # <<>> /\ ~IsComment(stripped)
                    THEN ExtFuncLines(stripped) \o ExtVarLines(stripped)
                    ELSE <<>>
         IN  ExtBody(lines, j + 1, bc, acc \o add)

\* lines 249-252
ExtHeader(m) ==
    (IF m.annotations # <<>> THEN <<Line(0, m.annotations)>> ELSE <<>>)
    \o <<Line(0, m.access \o <<"extension", m.name>> \o m.conformance \o <<"{">>)>>

\* lines 237-298: the outer while loop
RECURSIVE ExtScan(_, _)
ExtScan(lines, i) ==
    IF i > Len(lines) THEN <<>>
    ELSE LET m == extension_match(lines[i].toks)
         IN  IF m.ok
             THEN LET b == ExtBody(lines, i + 1, 1, ExtHeader(m))
                  IN  <<b.lines \o <<Line(0, <<"}">>)>> >> \o ExtScan(lines, b.j)
             ELSE ExtScan(lines, i + 1)

extract_extensions(lines) == ExtScan(lines, 1)

(***************************************************************************)
(* generate_code_map                                                       *)
(***************************************************************************)
RECURSIVE Flatten(_)
Flatten(blocks) ==
    IF blocks = <<>> THEN <<>> ELSE Head(blocks) \o Flatten(Tail(blocks))

TimestampLine == Line(0, <<"//", "Generated:", "<timestamp>">>)

\* the text built without the timestamp header of lines 320-323
BuildCodeMapNoHeader(imps, protos, typs, funcs, exts) ==
    (IF imps # <<>> THEN imps \o <<Blank>> ELSE <<>>)
    \o (IF protos # <<>> THEN Flatten(protos) \o <<Blank>> ELSE <<>>)
    \o (IF typs # <<>> THEN Flatten(typs) \o <<Blank>> ELSE <<>>)
    \o (IF funcs # <<>> THEN funcs \o <<Blank>> ELSE <<>>)
    \o (IF exts # <<>> THEN Flatten(exts) ELSE <<>>)

\* lines 317-349: '\n'.join(api_components), as the lines of the text
BuildCodeMap(imps, protos, typs, funcs, exts) ==
    <<TimestampLine, Blank>>
    \o (IF imps # <<>> THEN imps \o <<Blank>> ELSE <<>>)
    \o (IF protos # <<>> THEN Flatten(protos) \o <<Blank>> ELSE <<>>)
    \o (IF typs # <<>> THEN Flatten(typs) \o <<Blank>> ELSE <<>>)
    \o (IF funcs # <<>> THEN funcs \o <<Blank>> ELSE <<>>)
    \o (IF exts # <<>> THEN Flatten(exts) ELSE <<>>)

\* lines 302-349 as a function of the text that was read
generate_code_map(lines) ==
    BuildCodeMap(extract_imports(lines), extract_protocols(lines),
                 extract_types(lines), extract_global_functions(lines),
                 extract_extensions(lines))

ExtractImports ==
    /\ pc = "imports"
    /\ imports' = extract_imports(src)
    /\ pc' = "protocols"
    /\ UNCHANGED <<src, protocols, types, global_functions, extensions, code_map>>
    /\ UNCHANGED <<mvars, pvars, bvars>>

ExtractProtocols ==
    /\ pc = "protocols"
    /\ protocols' = extract_protocols(src)
    /\ pc' = "types"
    /\ UNCHANGED <<src, imports, types, global_functions, extensions, code_map>>
    /\ UNCHANGED <<mvars, pvars, bvars>>

ExtractTypes ==
    /\ pc = "types"
    /\ types' = extract_types(src)
    /\ pc' = "global_functions"
    /\ UNCHANGED <<src, imports, protocols, global_functions, extensions, code_map>>
    /\ UNCHANGED <<mvars, pvars, bvars>>

ExtractGlobalFunctions ==
    /\ pc = "global_functions"
    /\ global_functions' = extract_global_functions(src)
    /\ pc' = "extensions"
    /\ UNCHANGED <<src, imports, protocols, types, extensions, code_map>>
    /\ UNCHANGED <<mvars, pvars, bvars>>

ExtractExtensions ==
    /\ pc = "extensions"
    /\ extensions' = extract_extensions(src)
    /\ pc' = "build"
    /\ UNCHANGED <<src, imports, protocols, types, global_functions, code_map>>
    /\ UNCHANGED <<mvars, pvars, bvars>>

ReturnCodeMap ==
    /\ pc = "build"
    /\ code_map' = BuildCodeMap(imports, protocols, types, global_functions, extensions)
    /\ pc' = "done"
    /\ UNCHANGED <<src, imports, protocols, types, global_functions, extensions>>
    /\ UNCHANGED <<mvars, pvars, bvars>>

ScanNext ==
    \/ ExtractImports
    \/ ExtractProtocols
    \/ ExtractTypes
    \/ ExtractGlobalFunctions
    \/ ExtractExtensions
    \/ ReturnCodeMap

(***************************************************************************)
(* Source lines the scanned files are made of                              *)
(***************************************************************************)
LTypeHeader   == Line(0, <<"public", "class", "A", "{">>)
LFuncOpen     == Line(1, <<"public", "func", "m", "()", "{">>)
LFuncSig      == Line(1, <<"public", "func", "n", "()">>)
LOpen         == Line(1, <<"{">>)
LClose        == Line(0, <<"}">>)
LPrivateField == Line(1, <<"private", "var", "x", ":", "Int", "=", "0">>)
TypeLines == {LTypeHeader, LFuncOpen, LFuncSig, LOpen, LClose, LPrivateField}

LProtoHeader  == Line(0, <<"protocol", "P", "{">>)
LReqA         == Line(1, <<"func", "a", "()">>)
LReqB         == Line(1, <<"@objc", "func", "b", "()">>)
LReqMutating  == Line(1, <<"mutating", "func", "c", "()">>)
LReqVar       == Line(1, <<"var", "x", ":", "Int", "{", "get", "}">>)
ProtoLines == {LProtoHeader, LReqA, LReqB, LReqMutating, LReqVar, LClose}

LExtHeader    == Line(0, <<"extension", "A", "{">>)
LStored       == Line(1, <<"var", "s", ":", "Int", "=", "0">>)
LStoredLet    == Line(1, <<"public", "let", "t", ":", "Int", "=", "1">>)
LComputed     == Line(1, <<"var", "c", ":", "Int", "{", "1", "}">>)
ExtLines == {LExtHeader, LReqB, LStored, LStoredLet, LComputed, LClose}

LClassA       == Line(0, <<"class", "A", "{">>)
LStructB      == Line(0, <<"struct", "B">>)
LFree         == Line(0, <<"func", "g", "()">>)
LClassFunc    == Line(1, <<"class", "func", "c", "()", "{">>)
GlobalLines == {LClassA, LStructB, LOpen, LClose, LFree, LClassFunc}

LImport        == Line(0, <<"import", "Foundation">>)
LCommentImport == Line(0, <<"//", "import", "Foundation">>)
LCommentFunc   == Line(0, <<"//", "func", "g", "()">>)
LStatement     == Line(0, <<"x", "=", "1">>)
PlainLines == {Blank, LImport, LCommentImport, LCommentFunc, LStatement, LClose}

LFilePrivateFunc == Line(1, <<"fileprivate", "func", "q", "()">>)
LPrivateComputed == Line(1, <<"private", "var", "p", ":", "Int", "{", "1", "}">>)
VisLines == {LClassA, LExtHeader, LClose, LPrivateField, LFilePrivateFunc,
             LPrivateComputed, LFuncSig, LComputed}

\* content.split('\n') never gives an empty list
SourcesOver(cat) == UNION {[1..k -> cat] : k \in 1..MaxLines}

ScanInit(cat) ==
    /\ src \in SourcesOver(cat)
    /\ pc = "imports"
    /\ imports = <<>> /\ protocols = <<>> /\ types = <<>>
    /\ global_functions = <<>> /\ extensions = <<>> /\ code_map = <<>>

(***************************************************************************)
(* main of code_map_generator.py                                           *)
(***************************************************************************)
FilePaths == {"a.swift", "b.swift"}
DirPath   == "lib"
OtherPath == "notes.txt"
ArgPaths  == FilePaths \cup {DirPath, OtherPath}
DirFiles  == {"lib/a.swift", "lib/B.swift", "lib/ab.swift"}
DirOther  == "lib/notes.txt"

\* path.endswith('.swift')
EndsWithSwift(p) == p \in FilePaths \cup DirFiles
\* os.path.isfile(path)
IsFile(p) == (p \in FilePaths /\ fsKind[p] # "missing") \/ p = OtherPath
\* os.path.isdir(path)
IsDir(p) == p = DirPath
\* open(file_path) and f.read() succeed
Readable(p) ==
    \/ p \in FilePaths /\ fsKind[p] = "readable"
    \/ p \in DirFiles /\ dirKind[p] = "readable"

\* the text of each readable file
FileText(p) ==
    CASE p = "a.swift"      -> <<LImport, Blank, LClassA, LFuncSig, LClose>>
      [] p = "b.swift"      -> <<Blank>>
      [] p = "lib/a.swift"  -> <<LProtoHeader, LReqA, LClose>>
      [] p = "lib/B.swift"  -> <<LFree>>
      [] OTHER              -> <<LCommentFunc, Blank>>

\* code points of the characters of a path
Codes(p) ==
    CASE p = "lib/a.swift"  -> <<108, 105, 98, 47, 97, 46, 115, 119, 105, 102, 116>>
      [] p = "lib/B.swift"  -> <<108, 105, 98, 47, 66, 46, 115, 119, 105, 102, 116>>
      [] p = "lib/ab.swift" -> <<108, 105, 98, 47, 97, 98, 46, 115, 119, 105, 102, 116>>
      [] OTHER              -> <<>>

\* str < str of Python: by code point, a proper prefix first
RECURSIVE LexLess(_, _)
LexLess(a, b) ==
    IF b = <<>> THEN FALSE
    ELSE IF a = <<>> THEN TRUE
    ELSE IF Head(a) # Head(b) THEN Head(a) < Head(b)
    ELSE LexLess(Tail(a), Tail(b))

RECURSIVE Insert(_, _)
Insert(p, sorted) ==
    IF sorted = <<>> THEN <<p>>
    ELSE IF LexLess(Codes(p), Codes(Head(sorted))) THEN <<p>> \o sorted
    ELSE <<Head(sorted)>> \o Insert(p, Tail(sorted))

RECURSIVE InsertionSort(_)
InsertionSort(files) ==
    IF files = <<>> THEN <<>> ELSE Insert(Head(files), InsertionSort(Tail(files)))

\* the list left in the order os.walk produced it
Unsorted(files) == files

\* sorted(swift_files), line 404
Sorted(files) == InsertionSort(files)

\* the orders in which os.walk may list the .swift files of the directory
WalkOrders ==
    LET present == {f \in DirFiles \cup {DirOther} :
                        EndsWithSwift(f) /\ (f \in DirFiles => dirKind[f] # "absent")}
        n == Cardinality(present)
    IN  {w \in [1..n -> present] : \A x, y \in 1..n : x # y => w[x] # w[y]}

Str(toks) == <<Line(0, toks)>>
Rule == Line(0, <<"////////////////////">>)
ErrorLine == Line(0, <<"//", "Error", "processing", "file:", "<exception>">>)
NoSurfaceLine == Line(0, <<"//", "No", "public", "API", "surface", "found">>)
\* code_map.strip()
StripNonEmpty(text) == \E k \in 1..Len(text) : text[k].toks # <<>>

\* lines 375-386 and 408-419: the try block and the trailing separator
MapOrError(p) ==
    <<IF Readable(p)
      THEN (IF StripNonEmpty(generate_code_map(FileText(p)))
            THEN generate_code_map(FileText(p))
            ELSE <<NoSurfaceLine>>)
      ELSE <<ErrorLine>>,
      <<Blank>>, <<Rule>>, <<Blank>> >>

\* lines 365-386
ProcessFile ==
    /\ mpc = "loop" /\ pidx <= Len(paths)
    /\ IsFile(paths[pidx]) /\ EndsWithSwift(paths[pidx])
    /\ output_lines' = output_lines
          \o << <<TimestampLine>>,
                Str(<<"//", "Swift", "API", "Surface", "Map", "for:", paths[pidx]>>),
                Str(<<"//", "Generated", "by", "Swift", "Code", "Map", "Generator">>),
                Str(<<"//", "Contains:", "imports,", "protocols,", "...">>),
                Str(<<"//", "Excludes:", "implementation", "details,", "private", "members">>),
                <<Blank>> >>
          \o MapOrError(paths[pidx])
    /\ pidx' = pidx + 1
    /\ UNCHANGED <<paths, use_output, fsKind, dirKind, mpc, swift_files, fidx,
                   out_text, summary>>
    /\ UNCHANGED <<svars, pvars, bvars>>

\* lines 388-402
EnterDirectory ==
    /\ mpc = "loop" /\ pidx <= Len(paths)
    /\ ~(IsFile(paths[pidx]) /\ EndsWithSwift(paths[pidx]))
    /\ IsDir(paths[pidx])
    /\ \E walk \in WalkOrders :
          /\ swift_files' = Sorted(walk)
          /\ IF walk # <<>>
             THEN /\ output_lines' = output_lines
                       \o << <<TimestampLine>>,
                             Str(<<"//", "Swift", "API", "Surface", "Map", "for",
                                   "directory:", paths[pidx]>>),
                             Str(<<"//", "Found", ToString(Len(walk)), "Swift", "files">>),
                             Str(<<"//", "Generated", "by", "Swift", "Code", "Map",
                                   "Generator">>),
                             <<Blank>> >>
                  /\ mpc' = "dir" /\ fidx' = 1 /\ pidx' = pidx
             ELSE /\ output_lines' = output_lines
                  /\ mpc' = "loop" /\ fidx' = fidx /\ pidx' = pidx + 1
    /\ UNCHANGED <<paths, use_output, fsKind, dirKind, out_text, summary>>
    /\ UNCHANGED <<svars, pvars, bvars>>

\* lines 404-419: one iteration over the sorted files
ProcessDirFile ==
    /\ mpc = "dir" /\ fidx <= Len(swift_files)
    /\ output_lines' = output_lines
          \o << Str(<<"//", "===", swift_files[fidx], "===">>), <<Blank>> >>
          \o MapOrError(swift_files[fidx])
    /\ IF fidx = Len(swift_files)
       THEN mpc' = "loop" /\ pidx' = pidx + 1 /\ fidx' = fidx + 1
       ELSE mpc' = "dir" /\ pidx' = pidx /\ fidx' = fidx + 1
    /\ UNCHANGED <<paths, use_output, fsKind, dirKind, swift_files, out_text, summary>>
    /\ UNCHANGED <<svars, pvars, bvars>>

\* lines 365, 388: the path is neither a .swift file nor a directory
SkipPath ==
    /\ mpc = "loop" /\ pidx <= Len(paths)
    /\ ~(IsFile(paths[pidx]) /\ EndsWithSwift(paths[pidx]))
    /\ ~IsDir(paths[pidx])
    /\ pidx' = pidx + 1
    /\ UNCHANGED <<paths, use_output, fsKind, dirKind, mpc, swift_files, fidx,
                   output_lines, out_text, summary>>
    /\ UNCHANGED <<svars, pvars, bvars>>

\* lines 421-427
WriteOutput ==
    /\ mpc = "loop" /\ pidx > Len(paths) /\ use_output
    /\ out_text' = Flatten(output_lines)
    /\ summary' = Len(output_lines)
    /\ mpc' = "done"
    /\ UNCHANGED <<paths, use_output, fsKind, dirKind, pidx, swift_files, fidx,
                   output_lines>>
    /\ UNCHANGED <<svars, pvars, bvars>>

\* lines 421, 428-429
PrintOutput ==
    /\ mpc = "loop" /\ pidx > Len(paths) /\ ~use_output
    /\ out_text' = Flatten(output_lines)
    /\ mpc' = "done"
    /\ UNCHANGED <<paths, use_output, fsKind, dirKind, pidx, swift_files, fidx,
                   output_lines, summary>>
    /\ UNCHANGED <<svars, pvars, bvars>>

MainNext ==
    \/ ProcessFile
    \/ EnterDirectory
    \/ ProcessDirFile
    \/ SkipPath
    \/ WriteOutput
    \/ PrintOutput

MainInit ==
    /\ paths \in UNION {[1..k -> ArgPaths] : k \in 1..MaxPaths}
    /\ use_output \in BOOLEAN
    /\ fsKind \in [FilePaths -> {"readable", "unreadable", "missing"}]
    /\ dirKind \in [DirFiles -> {"readable", "unreadable", "absent"}]
    /\ mpc = "loop" /\ pidx = 1
    /\ swift_files = <<>> /\ fidx = 1
    /\ output_lines = <<>> /\ out_text = <<>> /\ summary = -1

(***************************************************************************)
(* update_network_config                                                   *)
(***************************************************************************)
\* A line of NetworkConfiguration.swift:
\*   "env"          let env = "<env>" // DEFAULT_ENVIRONMENT
\*   "env_unmarked" let env = "<env>"          (no marker comment)
\*   "staging"      let stagingConfig = EnvironmentConfig(host: "<host>", ...
\*   "development"  let developmentConfig = EnvironmentConfig(host: "<host>", ...
\*   "other"        anything else
\* env is a mode name, host a sequence of characters.
CfgLine(k, e, h) == [kind |-> k, env |-> e, host |-> h]

Https == <<"h", "t", "t", "p", "s", ":", "/", "/">>
Http  == <<"h", "t", "t", "p", ":", "/", "/">>
AbcNgrokIo == <<"a", "b", "c", ".", "n", "g", "r", "o", "k", ".", "i", "o">>
OldStagingHost == <<"o", "l", "d", ".", "i", "o">>
OldDevHost == <<"1", "9", "2", ".", "1">>
Ip0 == <<"1", "0", ".", "0", ".", "0", ".", "5">>
Ip1 == <<"1", "0", ".", "0", ".", "0", ".", "6">>

StartsWith(str, pat) == Len(str) >= Len(pat) /\ SubSeq(str, 1, Len(pat)) = pat

\* str.replace(pat, ''): leftmost non-overlapping occurrences removed
RECURSIVE Remove(_, _)
Remove(str, pat) ==
    IF str = <<>> THEN <<>>
    ELSE IF StartsWith(str, pat) THEN Remove(SubSeq(str, Len(pat) + 1, Len(str)), pat)
    ELSE <<Head(str)>> \o Remove(Tail(str), pat)

\* only the https:// prefix removed
TunnelHostHttpsOnly(url) == Remove(url, Https)

\* line 27: tunnel_url.replace('https://', '').replace('http://', '')
TunnelHost(url) == Remove(Remove(url, Https), Http)

\* re.sub(r'let env = "[^"]*" // DEFAULT_ENVIRONMENT', 'let env = "<m>" // ...')
SubEnv(text, m) ==
    [k \in 1..Len(text) |->
        IF text[k].kind = "env" THEN [text[k] EXCEPT !.env = m] ELSE text[k]]

\* re.sub(r'let <which>Config = EnvironmentConfig\(host: "[^"]*"', ... "<h>")
SubHost(text, which, h) ==
    [k \in 1..Len(text) |->
        IF text[k].kind = which THEN [text[k] EXCEPT !.host = h] ELSE text[k]]

\* what subprocess.run(['ipconfig', 'getifaddr', <if>]) gives on this host
RunResult(outcome, ip) ==
    IF outcome = "ok" THEN [returncode |-> 0, stdout |-> ip]
    ELSE [returncode |-> 1, stdout |-> <<>>]

\* the test on the return code dropped
LookupAlwaysSucceeded(r) == TRUE

\* line 55: result.returncode == 0
LookupSucceeded(r) == r.returncode = 0

\* lines 13-14
ReadFile ==
    /\ ppc = "start"
    /\ content' = disk
    /\ ppc' = "mode"
    /\ UNCHANGED <<mode, tunnel_url, en0, en1, disk, result, queried, printed, writes>>
    /\ UNCHANGED <<svars, mvars, bvars>>

\* lines 17-32
UpdateStaging ==
    /\ ppc = "mode" /\ mode = "staging"
    /\ content' = IF tunnel_url # <<>>
                  THEN SubHost(SubEnv(content, "staging"), "staging", TunnelHost(tunnel_url))
                  ELSE SubEnv(content, "staging")
    /\ ppc' = "write"
    /\ UNCHANGED <<mode, tunnel_url, en0, en1, disk, result, queried, printed, writes>>
    /\ UNCHANGED <<svars, mvars, bvars>>

\* lines 33-38
UpdateAws ==
    /\ ppc = "mode" /\ mode = "aws"
    /\ content' = SubEnv(content, "aws")
    /\ ppc' = "write"
    /\ UNCHANGED <<mode, tunnel_url, en0, en1, disk, result, queried, printed, writes>>
    /\ UNCHANGED <<svars, mvars, bvars>>

\* lines 39-44
UpdateLocal ==
    /\ ppc = "mode" /\ mode = "local"
    /\ content' = SubEnv(content, "local")
    /\ ppc' = "en0"
    /\ UNCHANGED <<mode, tunnel_url, en0, en1, disk, result, queried, printed, writes>>
    /\ UNCHANGED <<svars, mvars, bvars>>

\* lines 17, 33, 39: no branch is taken for any other mode
UnknownMode ==
    /\ ppc = "mode" /\ mode \notin {"staging", "aws", "local"}
    /\ ppc' = "write"
    /\ UNCHANGED <<mode, tunnel_url, en0, en1, disk, content, result, queried,
                   printed, writes>>
    /\ UNCHANGED <<svars, mvars, bvars>>

\* lines 48-51, 68-69
QueryEn0 ==
    /\ ppc = "en0"
    /\ queried' = Append(queried, "en0")
    /\ IF en0 = "raise"
       THEN /\ printed' = Append(printed, "Error detecting IP, using existing configuration")
            /\ ppc' = "write" /\ result' = result
       ELSE /\ result' = RunResult(en0, Ip0)
            /\ ppc' = IF RunResult(en0, Ip0).returncode # 0 THEN "en1" ELSE "apply"
            /\ printed' = printed
    /\ UNCHANGED <<mode, tunnel_url, en0, en1, disk, content, writes>>
    /\ UNCHANGED <<svars, mvars, bvars>>

\* lines 51-53, 68-69
QueryEn1 ==
    /\ ppc = "en1"
    /\ queried' = Append(queried, "en1")
    /\ IF en1 = "raise"
       THEN /\ printed' = Append(printed, "Error detecting IP, using existing configuration")
            /\ ppc' = "write" /\ result' = result
       ELSE /\ result' = RunResult(en1, Ip1)
            /\ ppc' = "apply"
            /\ printed' = printed
    /\ UNCHANGED <<mode, tunnel_url, en0, en1, disk, content, writes>>
    /\ UNCHANGED <<svars, mvars, bvars>>

\* lines 55-67
ApplyLookup ==
    /\ ppc = "apply"
    /\ IF LookupSucceeded(result)
       THEN /\ content' = SubHost(content, "development", result.stdout)
            /\ printed' = printed \o <<"Detected current local IP",
                                       "Updated local development host">>
       ELSE /\ content' = content
            /\ printed' = Append(printed,
                                 "Could not detect local IP, using existing configuration")
    /\ ppc' = "write"
    /\ UNCHANGED <<mode, tunnel_url, en0, en1, disk, result, queried, writes>>
    /\ UNCHANGED <<svars, mvars, bvars>>

\* lines 72-77
WriteFile ==
    /\ ppc = "write"
    /\ disk' = content
    /\ writes' = writes + 1
    /\ printed' = printed \o <<"NetworkConfiguration.swift updated">>
                  \o (IF mode = "staging" /\ tunnel_url # <<>>
                      THEN <<"Tunnel host set">> ELSE <<>>)
    /\ ppc' = "done"
    /\ UNCHANGED <<mode, tunnel_url, en0, en1, content, result, queried>>
    /\ UNCHANGED <<svars, mvars, bvars>>

PatchNext ==
    \/ ReadFile
    \/ UpdateStaging
    \/ UpdateAws
    \/ UpdateLocal
    \/ UnknownMode
    \/ QueryEn0
    \/ QueryEn1
    \/ ApplyLookup
    \/ WriteFile

Modes == {"staging", "aws", "local", "tunnel"}
Endpoints == {<<>>, Https \o AbcNgrokIo, Http \o AbcNgrokIo, AbcNgrokIo,
              Https \o AbcNgrokIo \o <<"/">> \o Http}
ConfigFiles ==
    LET dev == CfgLine("development", "", OldDevHost)
        stg == CfgLine("staging", "", OldStagingHost)
        oth == CfgLine("other", "", <<>>)
    IN  {<<CfgLine("env", "aws", <<>>), oth, dev, stg>>,
         <<CfgLine("env", "local", <<>>), dev, stg, oth>>,
         <<CfgLine("env_unmarked", "aws", <<>>), dev, stg>>}

PatchInit ==
    /\ mode \in Modes
    /\ tunnel_url \in Endpoints
    /\ en0 \in {"ok", "fail", "raise"}
    /\ en1 \in {"ok", "fail", "raise"}
    /\ disk \in ConfigFiles
    /\ content = <<>>
    /\ ppc = "start"
    /\ result = RunResult("fail", <<>>)
    /\ queried = <<>> /\ printed = <<>> /\ writes = 0

(***************************************************************************)
(* The block scanners, one loop iteration per step                         *)
(***************************************************************************)
BlockKinds == {"protocols", "types", "extensions"}

\* lines 27, 91, 240: the header pattern of the scanner
BlockHeaderMatch(kind, toks) ==
    CASE kind = "protocols" -> protocol_match(toks)
      [] kind = "types"     -> type_match(toks)
      [] OTHER              -> extension_match(toks)

\* lines 36-39, 103-113, 249-252
BlockHeaderLines(kind, toks) ==
    CASE kind = "protocols" -> ProtoHeader(protocol_match(toks))
      [] kind = "types"     -> TypeHeader(type_match(toks))
      [] OTHER              -> ExtHeader(extension_match(toks))

\* lines 51-69, 125-182, 264-290: the lines one body line appends
BlockMemberLines(kind, toks) ==
    CASE kind = "protocols" -> ProtoFuncLines(toks) \o ProtoVarLines(toks)
      [] kind = "types"     -> PropLines(toks) \o ComputedLines(toks) \o TypeFuncLines(toks)
      [] OTHER              -> ExtFuncLines(toks) \o ExtVarLines(toks)

\* lines 45, 119, 258: while j < len(lines) and brace_count > 0
InnerGoesOn(j, lines, count) == j <= Len(lines) /\ count > 0

\* the outer scan resuming on the last line of the block
ResumeOnLastLine(j) == j - 1

\* lines 75, 188, 296: i = j
ResumeAt(j) == j

\* lines 23-24, 76-77: no header on line i
OuterSkip ==
    /\ bphase = "outer" /\ bi <= Len(src)
    /\ ~BlockHeaderMatch(bkind, src[bi].toks).ok
    /\ bi' = bi + 1
    /\ UNCHANGED <<bkind, bphase, bj, bdepth, bcur, bblocks, branges>>
    /\ UNCHANGED <<svars, mvars, pvars>>

\* lines 29-43: a header on line i
OpenBlock ==
    /\ bphase = "outer" /\ bi <= Len(src)
    /\ BlockHeaderMatch(bkind, src[bi].toks).ok
    /\ bcur' = BlockHeaderLines(bkind, src[bi].toks)
    /\ bdepth' = 1
    /\ bj' = bi + 1
    /\ bphase' = "inner"
    /\ UNCHANGED <<bkind, bi, bblocks, branges>>
    /\ UNCHANGED <<svars, mvars, pvars>>

\* lines 45-71: one iteration of the inner loop
InnerStep ==
    /\ bphase = "inner" /\ InnerGoesOn(bj, src, bdepth)
    /\ LET stripped == src[bj].toks
           bc == bdepth + BraceDelta(stripped)
       IN  /\ bdepth' = bc
           /\ bcur' = IF bc = 1 /\ stripped # <<>> /\ ~IsComment(stripped)
                      THEN bcur \o BlockMemberLines(bkind, stripped)
                      ELSE bcur
    /\ bj' = bj + 1
    /\ UNCHANGED <<bkind, bphase, bi, bblocks, branges>>
    /\ UNCHANGED <<svars, mvars, pvars>>

\* lines 73-75: the inner loop has ended, the block is recorded
CloseBlock ==
    /\ bphase = "inner" /\ ~InnerGoesOn(bj, src, bdepth)
    /\ bblocks' = Append(bblocks, bcur \o <<Line(0, <<"}">>)>>)
    /\ branges' = Append(branges, <<bi, bj - 1>>)
    /\ bi' = ResumeAt(bj)
    /\ bphase' = "outer"
    /\ UNCHANGED <<bkind, bj, bdepth, bcur>>
    /\ UNCHANGED <<svars, mvars, pvars>>

\* lines 23, 79: the outer loop has ended
ReturnBlocks ==
    /\ bphase = "outer" /\ bi > Len(src)
    /\ bphase' = "done"
    /\ UNCHANGED <<bkind, bi, bj, bdepth, bcur, bblocks, branges>>
    /\ UNCHANGED <<svars, mvars, pvars>>

BlockNext ==
    \/ OuterSkip
    \/ OpenBlock
    \/ InnerStep
    \/ CloseBlock
    \/ ReturnBlocks

BlockLines == {LProtoHeader, LClassA, LExtHeader, LReqA, LClose}

BlockInit ==
    /\ src \in SourcesOver(BlockLines)
    /\ pc = "idle"
    /\ imports = <<>> /\ protocols = <<>> /\ types = <<>>
    /\ global_functions = <<>> /\ extensions = <<>> /\ code_map = <<>>
    /\ bkind \in BlockKinds
    /\ bphase = "outer" /\ bi = 1 /\ bj = 1 /\ bdepth = 0
    /\ bcur = <<>> /\ bblocks = <<>> /\ branges = <<>>

BlockIdle ==
    /\ bkind = "types" /\ bphase = "idle" /\ bi = 1 /\ bj = 1 /\ bdepth = 0
    /\ bcur = <<>> /\ bblocks = <<>> /\ branges = <<>>

(***************************************************************************)
(* Specifications                                                          *)
(***************************************************************************)
ScanIdle ==
    /\ src = <<Blank>> /\ pc = "idle"
    /\ imports = <<>> /\ protocols = <<>> /\ types = <<>>
    /\ global_functions = <<>> /\ extensions = <<>> /\ code_map = <<>>

MainIdle ==
    /\ paths = <<>> /\ use_output = FALSE
    /\ fsKind = [p \in FilePaths |-> "missing"]
    /\ dirKind = [p \in DirFiles |-> "absent"]
    /\ mpc = "idle" /\ pidx = 1 /\ swift_files = <<>> /\ fidx = 1
    /\ output_lines = <<>> /\ out_text = <<>> /\ summary = -1

PatchIdle ==
    /\ mode = "aws" /\ tunnel_url = <<>> /\ en0 = "fail" /\ en1 = "fail"
    /\ disk = <<>> /\ content = <<>> /\ ppc = "idle"
    /\ result = RunResult("fail", <<>>)
    /\ queried = <<>> /\ printed = <<>> /\ writes = 0

\* generate_code_map over sources made of each family of lines
InitTypes  == ScanInit(TypeLines) /\ MainIdle /\ PatchIdle /\ BlockIdle
InitProto  == ScanInit(ProtoLines) /\ MainIdle /\ PatchIdle /\ BlockIdle
InitExt    == ScanInit(ExtLines) /\ MainIdle /\ PatchIdle /\ BlockIdle
InitGlobal == ScanInit(GlobalLines) /\ MainIdle /\ PatchIdle /\ BlockIdle
InitPlain  == ScanInit(PlainLines) /\ MainIdle /\ PatchIdle /\ BlockIdle
\* one block scanner, stepped through its two loops
InitBlocks == BlockInit /\ MainIdle /\ PatchIdle
InitVis    == ScanInit(VisLines) /\ MainIdle /\ PatchIdle /\ BlockIdle
\* main of code_map_generator.py
InitMain   == MainInit /\ ScanIdle /\ PatchIdle /\ BlockIdle
\* update_network_config
InitPatch  == PatchInit /\ ScanIdle /\ MainIdle /\ BlockIdle

SpecTypes  == InitTypes /\ [][ScanNext]_vars
SpecProto  == InitProto /\ [][ScanNext]_vars
SpecExt    == InitExt /\ [][ScanNext]_vars
SpecGlobal == InitGlobal /\ [][ScanNext]_vars
SpecPlain  == InitPlain /\ [][ScanNext]_vars
SpecVis    == InitVis /\ [][ScanNext]_vars
\* the program runs to its end: no step that can be taken is put off forever
SpecBlocks == InitBlocks /\ [][BlockNext]_vars /\ WF_vars(BlockNext)
SpecMain   == InitMain /\ [][MainNext]_vars
SpecPatch  == InitPatch /\ [][PatchNext]_vars

(***************************************************************************)
(* Properties                                                              *)
(***************************************************************************)
Lines(block) == {block[k] : k \in 1..Len(block)}
HasTok(l, t) == \E k \in 1..Len(l.toks) : l.toks[k] = t

\* ---- C1 ----
\* one public type, one public method with a brace-delimited body (brace on
\* the signature line, or on the next line), one private stored field
C1Methods == {<<LFuncOpen, LClose>>, <<LFuncSig, LOpen, LClose>>}
C1Sources ==
    {<<LTypeHeader>> \o mth \o <<LPrivateField, LClose>> : mth \in C1Methods}
    \cup {<<LTypeHeader, LPrivateField>> \o mth \o <<LClose>> : mth \in C1Methods}
C1Signature(lines) ==
    IF \E k \in 1..Len(lines) : lines[k] = LFuncOpen
    THEN Line(1, <<"public", "func", "m", "()">>)
    ELSE Line(1, <<"public", "func", "n", "()">>)

\* C1: for a source made of one public type holding one public method with a
\* body and one private stored field, extract_types returns one block that
\* holds the type header line and the method's signature line and no line
\* for the private field.
C1_MethodAndHeaderEmitted ==
    (pc = "done" /\ src \in C1Sources) =>
        /\ Len(types) = 1
        /\ Line(0, <<"public", "class", "A", "{">>) \in Lines(types[1])
        /\ C1Signature(src) \in Lines(types[1])
        /\ \A l \in Lines(types[1]) : ~HasTok(l, "x") /\ ~HasTok(l, "private")

\* ---- C5 ----
IsAttr(t) == t \in Attrs
NotAttr(t) == t \notin Attrs
C5Header == Line(0, <<"protocol", "P", "{">>)
C5Close == Line(0, <<"}">>)
\* method requirements: any of the three / those of the form
\* [@attributes] [static|class] func <signature>
C5AllMethods == {LReqA, LReqB, LReqMutating}
C5PlainMethods == {LReqA, LReqB}
C5Source(m1, m2) == <<LProtoHeader, m1, m2, LClose>>
C5Member(m) == Line(1, SelectSeq(m.toks, NotAttr))
C5Expected(m) ==
    (IF SelectSeq(m.toks, IsAttr) # <<>>
     THEN <<Line(1, SelectSeq(m.toks, IsAttr))>> ELSE <<>>)
    \o <<C5Member(m)>>

StoredStyle(l) ==
    /\ HasTok(l, "var") \/ HasTok(l, "let")
    /\ HasTok(l, "=") /\ ~HasTok(l, "{")
\* the name declared by a var/let line
DeclaredName(l) ==
    LET k == FirstIdx(l.toks, 1, {"var", "let"}) IN Tok(l.toks, k + 1)
StoredNames(lines) ==
    {DeclaredName(lines[k]) : k \in {n \in 1..Len(lines) : StoredStyle(lines[n])}}
EndsWithGet(l) ==
    Len(l.toks) >= 3 /\ SubSeq(l.toks, Len(l.toks) - 2, Len(l.toks)) = <<"{", "get", "}">>
AttributeLine(l) == l.toks # <<>> /\ \A k \in 1..Len(l.toks) : l.toks[k] \in Attrs

DeclKeywords == {"import", "protocol", "class", "struct", "enum", "func",
                 "extension", "init", "deinit", "var", "let"}
\* every line is blank, a comment, or free of declaration keywords
NoDeclarations(lines) ==
    \A k \in 1..Len(lines) :
        IsComment(lines[k].toks) \/ \A t \in DeclKeywords : ~HasTok(lines[k], t)

\* C9: for a source without declarations the five scanners return empty
\* sequences and generate_code_map returns the timestamp line and blank
\* lines only.
C9_EmptySurface ==
    (pc = "done" /\ NoDeclarations(src)) =>
        /\ imports = <<>> /\ protocols = <<>> /\ types = <<>>
        /\ global_functions = <<>> /\ extensions = <<>>
        /\ code_map # <<>> /\ code_map[1] = TimestampLine
        /\ \A k \in 2..Len(code_map) : code_map[k] = Blank

C9_Witness ==
    /\ pc = "done"
    /\ src = <<LCommentImport, Blank, LStatement, LCommentFunc, LClose>>
    /\ code_map = <<TimestampLine, Blank>>

\* ---- C10 ----
\* a type declaration: class/struct/enum/protocol followed by the type's name
DeclaresType(toks) ==
    LET k == FirstIdx(toks, 1, {"class", "struct", "enum", "protocol"})
    IN  /\ \A p \in 1..(k - 1) : toks[p] \in Attrs \cup AccessKw \cup {"final"}
        /\ Tok(toks, k + 1) \in Names
\* InBody(lines)[k]: line k lies between the opening brace of a type
\* declaration and its matching closing brace.  depth counts the braces
\* open before a line, bodies holds the depth of each open type body, and
\* pending says that a type header still waits for its opening brace.
RECURSIVE BodyWalk(_, _, _, _, _)
BodyWalk(lines, k, depth, bodies, pending) ==
    IF k > Len(lines) THEN <<>>
    ELSE LET toks == lines[k].toks
             delta == BraceDelta(toks)
             header == DeclaresType(toks)
             opensBody == (header \/ pending) /\ delta > 0
             pushed == IF opensBody THEN bodies \cup {depth + 1} ELSE bodies
             kept == {d \in pushed : d <= depth + delta}
         IN  <<bodies # {}>>
             \o BodyWalk(lines, k + 1, depth + delta, kept,
                         (header \/ pending) /\ ~opensBody /\ delta = 0)
InBody(lines) == BodyWalk(lines, 1, 0, {}, FALSE)
IsFuncLine(l) == HasTok(l, "func") /\ ~IsComment(l.toks)
FreeFuncLines(lines) ==
    {k \in 1..Len(lines) : IsFuncLine(lines[k]) /\ ~InBody(lines)[k]}

\* C10: extract_global_functions emits signatures of func lines outside
\* every type body only: each emitted signature is that of a func line
\* lying outside the type bodies, and no more signatures are emitted than
\* there are such lines.
C10_OnlyFreeFunctions ==
    pc = "done" =>
        /\ Len(global_functions) <= Cardinality(FreeFuncLines(src))
        /\ \A f \in 1..Len(global_functions) :
              \E k \in FreeFuncLines(src) :
                  Part(src[k].toks, 1, Len(global_functions[f].toks))
                      = global_functions[f].toks

\* ---- C2 ----
IsMarker(l) == Len(l.toks) = 4 /\ l.toks[1] = "//" /\ l.toks[2] = "===" /\ l.toks[4] = "==="
IsErrorMarker(l) ==
    Len(l.toks) >= 4 /\ SubSeq(l.toks, 1, 4) = <<"//", "Error", "processing", "file:">>
MarkerAt(text) == {k \in 1..Len(text) : IsMarker(text[k])}
\* the lines of the section opened by the marker at k
SectionOf(text, k) ==
    {n \in (k + 1)..Len(text) : \A p \in (k + 1)..n : ~IsMarker(text[p])}
PresentFiles == {f \in DirFiles : dirKind[f] # "absent"}
\* 'B' (66) < 'a' (97), and "a." < "ab" since '.' (46) < 'b' (98)
LexOrder == <<"lib/B.swift", "lib/a.swift", "lib/ab.swift">>
LexRank(f) == CHOOSE k \in 1..Len(LexOrder) : LexOrder[k] = f

\* C2: for a directory argument holding N .swift files of which M cannot be
\* read, the report has exactly N sections, one marker per file, in
\* lexicographic order of path, each with its separator rule, and the error
\* marker stands in exactly the sections of the M files that cannot be read.
C2_DirectorySections ==
    (mpc = "done" /\ paths = <<DirPath>>) =>
        /\ Cardinality(MarkerAt(out_text)) = Cardinality(PresentFiles)
        /\ \A f \in PresentFiles :
              \E k \in MarkerAt(out_text) :
                  /\ out_text[k].toks[3] = f
                  /\ \A k2 \in MarkerAt(out_text) : out_text[k2].toks[3] = f => k2 = k
                  /\ Cardinality({n \in SectionOf(out_text, k) : out_text[n] = Rule}) = 1
                  /\ (\E n \in SectionOf(out_text, k) : IsErrorMarker(out_text[n]))
                        <=> dirKind[f] = "unreadable"
        /\ \A k1, k2 \in MarkerAt(out_text) :
              k1 < k2 => LexRank(out_text[k1].toks[3]) < LexRank(out_text[k2].toks[3])

C2_Witness ==
    /\ mpc = "done" /\ paths = <<DirPath>>
    /\ dirKind["lib/B.swift"] = "unreadable"
    /\ dirKind["lib/a.swift"] = "readable"
    /\ dirKind["lib/ab.swift"] = "readable"
    /\ Cardinality(MarkerAt(out_text)) = 3
    /\ Cardinality({k \in 1..Len(out_text) : IsErrorMarker(out_text[k])}) = 1

\* ---- C7 ----
FileHeader(p) == Line(0, <<"//", "Swift", "API", "Surface", "Map", "for:", p>>)

\* C7: every path argument naming a missing or unreadable source file has
\* its own section in the output with the error marker in it, and the run
\* reaches its end.
C7_FailureRenderedInline ==
    mpc = "done" =>
        \A i \in 1..Len(paths) :
            (paths[i] \in FilePaths /\ fsKind[paths[i]] # "readable") =>
                \E k \in 1..Len(out_text) :
                    /\ out_text[k] = FileHeader(paths[i])
                    /\ k + 5 <= Len(out_text)
                    /\ IsErrorMarker(out_text[k + 5])

\* ---- C8 ----
\* C8: the number of the summary line printed after writing the --output
\* file is the number of lines of the text written.
C8_SummaryCountsLines ==
    (mpc = "done" /\ use_output) => summary = Len(out_text)

\* ---- C3 ----
HasLeadingScheme(url) == StartsWith(url, Https) \/ StartsWith(url, Http)
\* the endpoint without its leading scheme prefix
WithoutScheme(url) ==
    IF StartsWith(url, Https) THEN SubSeq(url, Len(Https) + 1, Len(url))
    ELSE IF StartsWith(url, Http) THEN SubSeq(url, Len(Http) + 1, Len(url))
    ELSE url
\* no scheme occurs after the leading one
OneScheme(url) ==
    LET rest == WithoutScheme(url)
    IN  \A k \in 1..Len(rest) :
            LET tail == SubSeq(rest, k, Len(rest))
            IN  ~StartsWith(tail, Https) /\ ~StartsWith(tail, Http)
HostsOf(text, which) == {text[k].host : k \in {n \in 1..Len(text) : text[n].kind = which}}
MarkerValues(text) == {text[k].env : k \in {n \in 1..Len(text) : text[n].kind = "env"}}

LookupFailed ==
    \/ en0 = "raise"
    \/ en0 = "fail" /\ en1 \in {"fail", "raise"}
Warnings == {"Error detecting IP, using existing configuration",
             "Could not detect local IP, using existing configuration"}

\* C4: in mode "local", en1 is queried only after the lookup on en0 failed;
\* when the lookup fails on both interfaces or raises, the file is written
\* back with its developmentConfig host unchanged and the DEFAULT_ENVIRONMENT
\* line set to "local", and a warning has been printed.
C4_FailedLookupKeepsHost ==
    /\ [](\A k \in 1..Len(queried) :
             queried[k] = "en1" => (k = 2 /\ queried[1] = "en0" /\ en0 = "fail"))
    /\ [][(mode = "local" /\ LookupFailed /\ ppc = "write" /\ ppc' = "done") =>
             /\ writes' = writes + 1
             /\ HostsOf(disk', "development") = HostsOf(disk, "development")
             /\ \A k \in 1..Len(disk) :
                   disk[k].kind = "development" =>
                       Len(disk') = Len(disk) /\ disk'[k] = disk[k]
             /\ MarkerValues(disk') \subseteq {"local"}
             /\ \E k \in 1..Len(printed') : printed'[k] \in Warnings]_vars
    /\ [](ppc = "done" => writes = 1)

C4_Witness ==
    /\ ppc = "done" /\ mode = "local" /\ en0 = "fail" /\ en1 = "fail"
    /\ queried = <<"en0", "en1">>
    /\ writes = 1
    /\ HostsOf(disk, "development") = {OldDevHost}
    /\ MarkerValues(disk) = {"local"}

\* ---- C11 ----
\* the access qualifier of a line: its first token after the attributes
Qualifier(toks) == Tok(toks, SkipAttrs(toks, 1))
IsPrivateLine(l) == Qualifier(l.toks) \in {"private", "fileprivate"}
MemberName(l) ==
    LET k == FirstIdx(l.toks, 1, {"var", "let", "func"}) IN Tok(l.toks, k + 1)
PrivateNames(lines) ==
    {MemberName(lines[k]) : k \in {n \in 1..Len(lines) : IsPrivateLine(lines[n])}}
\* the header pattern of each block scanner
IsHeaderOf(kind, toks) ==
    CASE kind = "protocols" -> protocol_match(toks).ok
      [] kind = "types"     -> type_match(toks).ok
      [] OTHER              -> extension_match(toks).ok
\* DepthWalk(lines, 1, 0, kind)[k]: the brace depth of the block scan on line
\* k, the braces of line k counted in; 0 on a header line and outside blocks
RECURSIVE DepthWalk(_, _, _, _)
DepthWalk(lines, k, depth, kind) ==
    IF k > Len(lines) THEN <<>>
    ELSE IF depth <= 0
         THEN <<0>> \o DepthWalk(lines, k + 1,
                                 IF IsHeaderOf(kind, lines[k].toks) THEN 1 ELSE 0, kind)
         ELSE <<depth + BraceDelta(lines[k].toks)>>
              \o DepthWalk(lines, k + 1, depth + BraceDelta(lines[k].toks), kind)
Shapes == {"stored", "computed", "function"}
TypeShape(sh, toks) ==
    CASE sh = "stored"   -> prop_match(toks).ok
      [] sh = "computed" -> computed_match(toks).ok
      [] OTHER           -> TypeFuncMatch(toks).ok
ExtShape(sh, toks) ==
    CASE sh = "stored"   -> FALSE
      [] sh = "computed" -> computed_match(toks).ok
      [] OTHER           -> ExtFuncMatch(toks).ok
\* the (line, shape) pairs that must be emitted: matched, at depth 1, and
\* without a private or fileprivate qualifier
TypeDue(lines) ==
    LET depth == DepthWalk(lines, 1, 0, "types") IN
    {m \in (1..Len(lines)) \X Shapes :
        /\ depth[m[1]] = 1
        /\ ~IsComment(lines[m[1]].toks)
        /\ TypeShape(m[2], lines[m[1]].toks)
        /\ ~IsPrivateLine(lines[m[1]])}
ExtDue(lines) ==
    LET depth == DepthWalk(lines, 1, 0, "extensions") IN
    {m \in (1..Len(lines)) \X Shapes :
        /\ depth[m[1]] = 1
        /\ ~IsComment(lines[m[1]].toks)
        /\ ExtShape(m[2], lines[m[1]].toks)
        /\ ~IsPrivateLine(lines[m[1]])}
\* the member lines of a list of blocks: all but header and closing brace
RECURSIVE MemberLines(_)
MemberLines(blocks) ==
    IF blocks = <<>> THEN <<>>
    ELSE Part(Head(blocks), 2, Len(Head(blocks)) - 1) \o MemberLines(Tail(blocks))
\* an emitted line renders the member of that shape declared by line l
Renders(e, sh, l) ==
    /\ HasTok(e, MemberName(l))
    /\ (sh = "computed") <=> EndsWithGet(e)
    /\ (sh = "function") <=> HasTok(e, "func")
NoTypeKeyword(lines) ==
    \A k \in 1..Len(lines) :
        \A t \in {"class", "struct", "enum", "protocol"} : ~HasTok(lines[k], t)
VisibleFuncLines(lines) ==
    {k \in 1..Len(lines) : GlobalFuncMatch(lines[k].toks).ok
                           /\ ~IsComment(lines[k].toks) /\ ~IsPrivateLine(lines[k])}

RECURSIVE DepthFrom(_, _, _)
DepthFrom(lines, i, k) ==
    IF k <= i THEN 1 ELSE DepthFrom(lines, i, k - 1) + BraceDelta(lines[k].toks)
\* the last line of the block opened on line i: the first line on which the
\* depth is 0 or less, or the last line of the input
StopLine(lines, i) ==
    IF \E k \in (i + 1)..Len(lines) : DepthFrom(lines, i, k) <= 0
    THEN CHOOSE k \in (i + 1)..Len(lines) :
             /\ DepthFrom(lines, i, k) <= 0
             /\ \A n \in (i + 1)..(k - 1) : DepthFrom(lines, i, n) > 0
    ELSE Len(lines)
BlocksOf(kind, lines) ==
    CASE kind = "protocols" -> extract_protocols(lines)
      [] kind = "types"     -> extract_types(lines)
      [] OTHER              -> extract_extensions(lines)

\* C12: every recorded block starts on a header line and ends on the first
\* line where the depth is 0 or less, or at the end of the input; the blocks
\* are disjoint and in source order; each time the outer loop test is
\* reached again its index has grown, and after a block it is the line right
\* after the block; the scanner returns, on unbalanced input too, with the
\* blocks the scanner function gives.
C12_BlockScanProgress ==
    /\ [](bphase \in {"outer", "inner", "done"} =>
            /\ Len(bblocks) = Len(branges)
            /\ \A n \in 1..Len(branges) :
                  /\ BlockHeaderMatch(bkind, src[branges[n][1]].toks).ok
                  /\ branges[n][2] = StopLine(src, branges[n][1])
                  /\ branges[n][1] <= branges[n][2]
                  /\ n < Len(branges) => branges[n][2] < branges[n + 1][1]
            /\ bphase = "done" => bblocks = BlocksOf(bkind, src))
    /\ [][bphase' = "outer" =>
             /\ bi' > bi
             /\ bphase = "inner" => bi' = branges'[Len(branges')][2] + 1]_vars
    /\ <>(bphase = "done")

C12_Witness ==
    /\ bphase = "done" /\ bkind = "types"
    /\ src = <<LClassA, LClose, LClose, LClassA, LProtoHeader>>
    /\ branges = << <<1, 2>>, <<4, 5>> >>
    /\ Len(bblocks) = 2

\* ---- C13 ----
\* the entry of output_lines that holds the code map or the marker of the
\* section closed by the rule at entry k
SectionBody(k) == output_lines[k - 2]

\* C13: the text generate_code_map returns starts with the timestamp line
\* and is never blank, so main never emits the "No public API surface
\* found" marker: every section holds a code map or the error marker.
C13_NeverNoSurface ==
    /\ mpc = "done" =>
          \A p \in FilePaths \cup DirFiles :
              /\ StripNonEmpty(generate_code_map(FileText(p)))
              /\ generate_code_map(FileText(p))[1] = TimestampLine
    /\ \A k \in 1..Len(output_lines) :
          /\ output_lines[k] # <<NoSurfaceLine>>
          /\ output_lines[k] = <<Rule>> =>
                \/ SectionBody(k) = <<ErrorLine>>
                \/ /\ Len(SectionBody(k)) >= 2
                   /\ SectionBody(k)[1] = TimestampLine
    /\ \A k \in 1..Len(out_text) : out_text[k] # NoSurfaceLine

C13_Witness ==
    /\ mpc = "done"
    /\ paths = <<"b.swift", DirPath>>
    /\ fsKind["b.swift"] = "readable"
    /\ dirKind["lib/ab.swift"] = "readable"
    /\ dirKind["lib/a.swift"] = "unreadable"
    /\ \E k \in 1..Len(output_lines) : output_lines[k] = <<TimestampLine, Blank>>
    /\ \E k \in 1..Len(output_lines) : output_lines[k] = <<ErrorLine>>

====
